---- MODULE Spec2Model ----
(***************************************************************************)
(* Dr.Jit Python front end: drjit.switch() / drjit.dispatch()              *)
(* (src/python/switch.cpp) and the array constructor with its sequence     *)
(* importer (src/python/init.cpp).                                         *)
(*                                                                         *)
(* SpecCall models one switch()/dispatch() call together with the backend  *)
(* call-recording primitive ad_call() it drives.  SpecInit models one      *)
(* invocation of <array type>.__init__().                                  *)
(***************************************************************************)
EXTENDS Integers, Sequences, FiniteSets, TLC

(* ------------------------------- bounds -------------------------------- *)
\* lanes of a traced selector / mask
NLanes == 2
\* callables of a switch(), concrete instances of a dispatch()
NTargets == 2
\* positional arguments forwarded to the callables
MaxArgs == 1
\* longest host sequence handed to a constructor; largest extent, start and
\* stop handed to full / arange / linspace
MaxLen == 3
\* longest shape handed to full
MaxDims == 2
\* largest step (in absolute value) handed to arange
MaxStep == 2

Lanes == 1..NLanes
Groups == 1..NTargets

(* ===================================================================== *)
(*                    switch.cpp : switch() / dispatch()                 *)
(* ===================================================================== *)

VARIABLES
    pc,        \* position of the caller: idle, ad_call, returned, raised
    op,        \* "switch" or "dispatch" ("none" while idle)
    path,      \* "fast" (scalar selector), "traced" (Call State allocated), "none"
    index,     \* the selector argument: [tp, v]
    behav,     \* what each callee does when invoked: [raises, struct]
    cargs,     \* positional arguments after extract_mask
    ckwargs,   \* the "active" keyword argument after extract_mask (<<>> = absent)
    mask,      \* the mask extract_mask returned (tp = "none": invalid)
    fault,     \* which external step fails in this call
    active,    \* lanes the backend treats as active
    allocated, \* a Call State was allocated with new
    destroyed, \* who ran cleanup(state) / delete, in order
    pending,   \* the backend still owes a call of the cleanup callback
    done,      \* what ad_call returned
    rv_o,      \* state->rv_o: "invalid" or the structure of the stored result
    args_i,    \* handles held by the caller's argument Index Vector
    rv_i,      \* handles held by the caller's output Index Vector
    grp_rv,    \* handles collected by the callback into the backend's vectors
    refcnt,    \* per handle: references acquired minus references released
    calls,     \* log of callee invocations, in order
    adCalls,   \* number of ad_call() invocations
    result,    \* what the call returned
    access     \* accesses to the Call State's host objects made from the
               \* callback or a destruction: who, and whether the GIL was held

VARIABLES
    ipc,       \* constructor: "idle" before the call, "done" after it
    itp,       \* the type being constructed (Py_TYPE(self))
    iargs,     \* the positional arguments
    ikwds,     \* keyword arguments were passed
    iarrOk,    \* the argument array's type converts to a host scalar
    ires,      \* what the constructor did: see Res
    gpc,       \* full / arange / linspace: "idle" before the call, "done" after
    gcall,     \* the call: see GenCall
    gres       \* its outcome: see GenRes

initVars == <<ipc, itp, iargs, ikwds, iarrOk, ires, gpc, gcall, gres>>

callVars == <<pc, op, path, index, behav, cargs, ckwargs, mask, fault, active,
              allocated, destroyed, pending, done, rv_o, args_i, rv_i, grp_rv,
              refcnt, calls, adCalls, result, access>>

(* --------------------------- host values ------------------------------ *)

\* an argument value: its type and its lanes (one lane for a host scalar)
NoValue == [tp |-> "none", v |-> <<>>]

IsJit(tp) == tp \in {"llvm.Bool", "llvm.Float", "llvm.UInt"}

BoolPatterns == [Lanes -> {0, 1}]

MaskValues ==
    {[tp |-> "bool", v |-> <<b>>] : b \in {0, 1}}
    \cup {[tp |-> "llvm.Bool", v |-> p] : p \in BoolPatterns}

\* values of the "active" keyword
KwValues == MaskValues

\* positional arguments: JIT arrays or a host integer, then optionally a mask
PlainArgLists ==
    {[k \in 1..n |-> [tp |-> "llvm.Float", v |-> <<7>>]] : n \in 0..MaxArgs}
    \cup {<<[tp |-> "int", v |-> <<5>>]>>}

ArgLists == PlainArgLists \cup {Append(a, m) : a \in PlainArgLists, m \in MaskValues}

\* kwargs restricted to the one key the code reads, "active"
KwLists == {<<>>} \cup {<<a>> : a \in KwValues}

\* the (args, kwargs) pairs of a call: at most one mask is supplied
CallArgs ==
    {<<a, <<>>>> : a \in ArgLists} \cup {<<a, kw>> : a \in PlainArgLists, kw \in KwLists}

\* mask.type()(true)
TrueOf(a) == [tp |-> a.tp, v |-> <<1>>]

IsMaskType(tp) == tp \in {"llvm.Bool", "bool"}

\* extract_mask(args, kwargs): the mask, and args/kwargs with it replaced
ExtractMask(a, kw) ==
    IF Len(kw) > 0
    THEN [mask |-> kw[1], args |-> a, kwargs |-> <<TrueOf(kw[1])>>]
    ELSE IF Len(a) > 0 /\ IsMaskType(a[Len(a)].tp)
    THEN [mask |-> a[Len(a)],
          args |-> Append(SubSeq(a, 1, Len(a) - 1), TrueOf(a[Len(a)])),
          kwargs |-> kw]
    ELSE [mask |-> NoValue, args |-> a, kwargs |-> kw]

(* ------------------------------ callees -------------------------------- *)

\* a callee raises, or returns a value of structure A or B
Behaviours ==
    {[raises |-> FALSE, struct |-> t] : t \in {"A", "B"}}
    \cup {[raises |-> TRUE, struct |-> "A"]}

\* switch(): callables[0..n-1];  dispatch(): the callable bound to instance 1..n
Callees(o) == IF o = "switch" THEN 0..(NTargets - 1) ELSE Groups

\* Python sequence indexing callables[i]: negative indices wrap, others raise
SeqGetItem(n, i) ==
    IF i >= 0 /\ i < n THEN i
    ELSE IF i < 0 /\ i >= -n THEN i + n
    ELSE -1

NoResult == [kind |-> "none", callee |-> -1, struct |-> "-", args |-> <<>>,
             kwargs |-> <<>>, leaves |-> <<>>]

(* --------------------------- trace handles ----------------------------- *)

\* handle of the JIT argument at position k; of the keyword mask; of the
\* result of callee c; of the merged output variable
ArgHandle(k) == k
KwHandle == MaxArgs + 1
RvHandle(c) == MaxArgs + 2 + c
OutHandle == MaxArgs + NTargets + 3
Handles == 1..OutHandle

RECURSIVE Acquire(_, _)
\* "collect": one reference acquired per handle pushed
Acquire(rc, hs) ==
    IF hs = <<>> THEN rc
    ELSE Acquire([rc EXCEPT ![Head(hs)] = @ + 1], Tail(hs))

RECURSIVE Release(_, _)
\* ~dr_index_vector(): ad_var_dec_ref on every element
Release(rc, hs) ==
    IF hs = <<>> THEN rc
    ELSE Release([rc EXCEPT ![Head(hs)] = @ - 1], Tail(hs))

\* collect_indices(state->args_o, args_i): the leaves of (args, kwargs)
ArgLeaves(a, kw) ==
    SelectSeq([k \in 1..Len(a) |-> ArgHandle(k)], LAMBDA k : IsJit(a[k].tp))
    \o (IF Len(kw) > 0 /\ IsJit(kw[1].tp) THEN <<KwHandle>> ELSE <<>>)

(* ------------------------------ inputs --------------------------------- *)

\* the external step that fails in a call; a raising callee is in behav
Faults == {"none", "collect_args", "ad_call", "update_result"}

\* the first failure ends the call, so one failure per call covers them all
OneFailure(bh, f) == f = "none" \/ \A c \in DOMAIN bh : ~bh[c].raises

\* the callees of a call: all return structure A, except at most one that
\* raises or returns structure B (the first deviation decides the call)
BehavSets(o) ==
    {bh \in [Callees(o) -> Behaviours] :
        Cardinality({c \in Callees(o) : bh[c] # [raises |-> FALSE, struct |-> "A"]}) <= 1}

SwitchIndexValues ==
    {[tp |-> "int", v |-> <<i>>] : i \in (-NTargets - 1)..NTargets}
    \cup {[tp |-> "llvm.UInt", v |-> l] : l \in [Lanes -> 0..(NTargets - 1)]}
    \cup {[tp |-> "llvm.Float", v |-> <<0>>], [tp |-> "float", v |-> <<0>>]}

\* an instance array (0 = null pointer), a non-class array, a class array
\* whose type lacks the Domain attribute
InstanceValues ==
    {[tp |-> "llvm.ObjPtr", v |-> l] : l \in [Lanes -> 0..NTargets]}
    \cup {[tp |-> "llvm.Float", v |-> <<0>>], [tp |-> "llvm.NoDomainPtr", v |-> <<0>>]}

(* ------------------------- backend (ad_call) --------------------------- *)

\* a caller that never forwards the mask
NoMaskArg(m) == NoValue
\* the mask handle the caller hands to ad_call: 0 (none) when there is no mask
MaskArg(m) == IF m.tp # "none" THEN m ELSE NoValue

\* the mask argument is read through the selector's supplement as a JIT
\* array; for a mask that is none the value read is arbitrary
ReadsGarbage(m) == m.tp # "none" /\ m.tp # "llvm.Bool"

\* lanes the backend treats as active under the mask handle it was given
BackendActive(ma, ub) ==
    IF ma.tp = "none" THEN Lanes
    ELSE IF ma.tp = "llvm.Bool" THEN {l \in Lanes : ma.v[l] = 1}
    ELSE {l \in Lanes : ub[l] = 1}

\* the selector value of lane l as the backend sees it (0 = disabled)
ShiftIndex(i) == i + 1
GroupOf(l) == IF op = "switch" THEN ShiftIndex(index.v[l]) ELSE index.v[l]

ActiveGroups == {GroupOf(l) : l \in active} \ {0}
InvokedGroups == {calls[i].group : i \in 1..Len(calls)}

\* the `self` the backend passes to the callback for group g
BackendSelf(g) == IF op = "switch" THEN g - 1 ELSE g

(* ------------------------------- Init ---------------------------------- *)

InitCall ==
    /\ pc = "idle" /\ op = "none" /\ path = "none"
    /\ index = NoValue /\ behav = <<>> /\ cargs = <<>> /\ ckwargs = <<>>
    /\ mask = NoValue /\ fault = "none" /\ active = {}
    /\ allocated = FALSE /\ destroyed = <<>> /\ pending = FALSE /\ done = FALSE
    /\ rv_o = "invalid" /\ args_i = <<>> /\ rv_i = <<>> /\ grp_rv = <<>>
    /\ refcnt = [h \in Handles |-> 0]
    /\ calls = <<>> /\ adCalls = 0 /\ result = NoResult
    /\ access = {}

(* ------------------------ switch(): fast path -------------------------- *)

\* nb::try_cast<bool>(mask): only a host bool converts
TryCastBool(m) == m.tp = "bool"

\* a selector that picks the next callable
FastCalleeShifted(i) == SeqGetItem(NTargets, i + 1)
\* the callable the scalar selector picks: callables[index_], no shift
FastCallee(i) == SeqGetItem(NTargets, i)

\* the value a callee returns when called with (args, kwargs)
CallResult(c, a, kw) ==
    [kind |-> "value", callee |-> c, struct |-> behav'[c].struct, args |-> a,
     kwargs |-> kw, leaves |-> <<>>]

\* what every exit of the fast path and every early raise leaves untouched
NoCallState ==
    /\ allocated' = FALSE /\ destroyed' = <<>> /\ pending' = FALSE /\ done' = FALSE
    /\ rv_o' = "invalid" /\ args_i' = <<>> /\ rv_i' = <<>> /\ grp_rv' = <<>>
    /\ refcnt' = refcnt /\ adCalls' = adCalls /\ active' = {}
    /\ access' = {}

\* switch_impl with index_ a host integer
SwitchFast(idx, a, kw, bh) ==
    /\ pc = "idle" /\ idx.tp = "int"
    /\ LET em == ExtractMask(a, kw)
           c  == FastCallee(idx.v[1])
       IN /\ op' = "switch" /\ path' = "fast" /\ index' = idx /\ behav' = bh
          /\ cargs' = em.args /\ ckwargs' = em.kwargs /\ mask' = em.mask
          /\ fault' = "none"
          /\ NoCallState
          /\ IF em.mask.tp # "none" /\ ~TryCastBool(em.mask)
             THEN pc' = "raised" /\ calls' = <<>> /\ result' = NoResult
             ELSE IF em.mask.tp # "none" /\ em.mask.v[1] = 0
             THEN pc' = "returned" /\ calls' = <<>> /\ result' = NoResult
             ELSE IF c = -1
             THEN pc' = "raised" /\ calls' = <<>> /\ result' = NoResult
             ELSE /\ calls' = <<[group |-> -1, callee |-> c]>>
                  /\ IF bh[c].raises
                     THEN pc' = "raised" /\ result' = NoResult
                     ELSE pc' = "returned"
                          /\ result' = CallResult(c, em.args, em.kwargs)

(* ----------------------- switch(): general path ------------------------ *)

\* raise_if(!is_drjit_type(index_tp)) and the backend/type/ndim check
IndexAccepted(idx) == idx.tp = "llvm.UInt"

\* new State{...}; collect_indices(state->args_o, args_i); ad_call(...) entered
EnterAdCall(em, f, ub) ==
    /\ allocated' = TRUE /\ path' = "traced"
    /\ destroyed' = <<>> /\ done' = FALSE /\ rv_o' = "invalid"
    /\ rv_i' = <<>> /\ grp_rv' = <<>> /\ calls' = <<>> /\ result' = NoResult
    /\ pending' = FALSE /\ access' = {}
    /\ IF f = "collect_args"
       THEN /\ pc' = "raised" /\ args_i' = <<>> /\ refcnt' = refcnt
            /\ adCalls' = adCalls /\ active' = {}
       ELSE /\ pc' = "ad_call"
            /\ args_i' = ArgLeaves(em.args, em.kwargs)
            /\ refcnt' = Acquire(refcnt, ArgLeaves(em.args, em.kwargs))
            /\ adCalls' = adCalls + 1
            /\ active' = BackendActive(MaskArg(em.mask), ub)

UbPatterns(m) == IF ReadsGarbage(m) THEN BoolPatterns ELSE {[l \in Lanes |-> 1]}

SwitchEnter(idx, a, kw, bh, f) ==
    /\ pc = "idle" /\ idx.tp # "int"
    /\ LET em == ExtractMask(a, kw)
       IN /\ op' = "switch" /\ index' = idx /\ behav' = bh
          /\ cargs' = em.args /\ ckwargs' = em.kwargs /\ mask' = em.mask
          /\ IF ~IndexAccepted(idx)
             THEN /\ pc' = "raised" /\ path' = "none" /\ fault' = "none"
                  /\ calls' = <<>> /\ result' = NoResult /\ NoCallState
             ELSE /\ fault' = f
                  /\ \E ub \in UbPatterns(em.mask) : EnterAdCall(em, f, ub)

(* ----------------------------- dispatch() ------------------------------ *)

\* s.is_class && s.ndim == 1, and the type has a string Domain attribute
InstancesAccepted(inst) == inst.tp = "llvm.ObjPtr"

DispatchEnter(inst, a, kw, bh, f) ==
    /\ pc = "idle"
    /\ op' = "dispatch" /\ index' = inst /\ behav' = bh
    /\ IF ~InstancesAccepted(inst)
       THEN /\ pc' = "raised" /\ path' = "none" /\ fault' = "none"
            /\ cargs' = a /\ ckwargs' = kw /\ mask' = NoValue
            /\ calls' = <<>> /\ result' = NoResult /\ NoCallState
       ELSE LET em == ExtractMask(a, kw)
            IN /\ cargs' = em.args /\ ckwargs' = em.kwargs /\ mask' = em.mask
               /\ fault' = f
               /\ \E ub \in UbPatterns(em.mask) : EnterAdCall(em, f, ub)

(* ------------------- the per-group callback `func` --------------------- *)

\* a callback that picks the next callable
SwitchCalleeShifted(self) == SeqGetItem(NTargets, self + 1)
\* state.callables_o[index] with index = (uintptr_t) self
SwitchCallee(self) == SeqGetItem(NTargets, self)

\* state.callable_o(self_o, ...): the one callable, bound to instance self
DispatchCallee(self) == self

FuncCallee(self) == IF op = "switch" THEN SwitchCallee(self) ELSE DispatchCallee(self)

\* nb::gil_scoped_acquire guard: the lock is held to the end of the scope
GilScopedAcquire == TRUE

HostAccess(who, locked) == [by |-> who, locked |-> locked]

\* ~State(): with a live interpreter the members are reset under the GIL;
\* otherwise the body returns at once and the members' own destructors
\* release the objects, without the GIL
StateDestructor(who, alive) ==
    HostAccess(who, IF alive THEN GilScopedAcquire ELSE FALSE)

\* a compatibility check that accepts every result
IncompatibleNever(new, old) == FALSE
\* check_compatibility(result, state.rv_o) throws on a structural mismatch
Incompatible(new, old) == old # "invalid" /\ new # old

\* an exception leaves ad_call: the backend drops the vectors it handed to
\* the callback; the caller's rv_i is destroyed by unwinding; the catch
\* block does not touch the Call State.  Whether the backend kept the Call
\* State for a later cleanup is not determined by the caller.
Unwind(keeps) ==
    /\ pc' = "raised"
    /\ refcnt' = Release(Release(refcnt, grp_rv), rv_i)
    /\ grp_rv' = <<>> /\ rv_i' = <<>>
    /\ pending' = keeps
    /\ UNCHANGED <<destroyed, done, args_i, result>>

UnchangedInputs ==
    UNCHANGED <<op, path, index, behav, cargs, ckwargs, mask, fault, active,
                allocated, adCalls>>

Func(g) ==
    /\ pc = "ad_call" /\ g \in ActiveGroups \ InvokedGroups
    /\ UnchangedInputs
    /\ access' = access \cup {HostAccess("callback", GilScopedAcquire)}
    /\ LET c == FuncCallee(BackendSelf(g))
       IN IF c = -1
          THEN /\ calls' = calls /\ rv_o' = rv_o
               /\ \E keeps \in BOOLEAN : Unwind(keeps)
          ELSE /\ calls' = Append(calls, [group |-> g, callee |-> c])
               /\ IF behav[c].raises \/ Incompatible(behav[c].struct, rv_o)
                  THEN /\ rv_o' = rv_o
                       /\ \E keeps \in BOOLEAN : Unwind(keeps)
                  ELSE /\ rv_o' = behav[c].struct
                       /\ grp_rv' = Append(grp_rv, RvHandle(c))
                       /\ refcnt' = Acquire(refcnt, <<RvHandle(c)>>)
                       /\ UNCHANGED <<pc, pending, destroyed, done, args_i, rv_i,
                                      result>>

\* ad_call itself fails
AdCallThrow ==
    /\ pc = "ad_call" /\ fault = "ad_call"
    /\ UNCHANGED initVars
    /\ UnchangedInputs
    /\ UNCHANGED <<calls, rv_o, access>>
    /\ \E keeps \in BOOLEAN : Unwind(keeps)

(* ------------------ return of ad_call and the epilogue ----------------- *)

\* update_indices(state->rv_o, rv_i): a never-assigned slot with an empty
\* vector reconstructs to the empty value
UpdateIndices(slot, leaves) ==
    [kind |-> IF slot = "invalid" THEN "empty" ELSE "value", callee |-> -1,
     struct |-> slot, args |-> <<>>, kwargs |-> <<>>, leaves |-> leaves]

UpdateThrows(slot, f) == f = "update_result" /\ slot # "invalid"

\* a caller that cleans up whatever ad_call reported
CallerCleansAlways(d) == TRUE
\* if (done) cleanup(state);
CallerCleans(d) == d

\* the output vector ad_call hands back: one merged variable per result leaf
MergedOutput == IF calls = <<>> THEN <<>> ELSE <<OutHandle>>

AdCallReturn(d) ==
    /\ pc = "ad_call" /\ fault # "ad_call" /\ ActiveGroups \subseteq InvokedGroups
    /\ UnchangedInputs
    /\ UNCHANGED <<calls, rv_o, args_i>>
    /\ done' = d /\ pending' = ~d
    /\ grp_rv' = <<>> /\ rv_i' = <<>>
    \* the backend drops the per-group vectors and fills rv_i; rv_i is
    \* destroyed when the caller's scope ends, by return or by unwinding
    /\ refcnt' = Release(Acquire(Release(refcnt, grp_rv), MergedOutput), MergedOutput)
    /\ IF UpdateThrows(rv_o, fault)
       THEN /\ pc' = "raised" /\ result' = NoResult /\ destroyed' = destroyed
            /\ access' = access
       ELSE /\ pc' = "returned"
            /\ result' = UpdateIndices(rv_o, MergedOutput)
            /\ destroyed' = IF CallerCleans(d) THEN Append(destroyed, "caller")
                            ELSE destroyed
            \* the caller runs inside a host call: the interpreter is alive
            /\ access' = IF CallerCleans(d)
                         THEN access \cup {StateDestructor("caller", TRUE)}
                         ELSE access

\* the backend finalizes a recorded call: cleanup(state)
BackendCleanup ==
    /\ pc \in {"returned", "raised"} /\ pending
    /\ UNCHANGED initVars
    /\ pending' = FALSE
    /\ destroyed' = Append(destroyed, "backend")
    \* the backend may finalize the call after the interpreter has shut down
    /\ \E alive \in BOOLEAN :
          access' = access \cup {StateDestructor("backend", alive)}
    /\ UNCHANGED <<pc, op, path, index, behav, cargs, ckwargs, mask, fault,
                   active, allocated, done, rv_o, args_i, rv_i, grp_rv, refcnt,
                   calls, adCalls, result>>

\* one call per behaviour: the inputs are drawn when the call is made
Switch ==
    /\ pc = "idle" /\ ipc = "idle" /\ gpc = "idle"
    /\ UNCHANGED initVars
    /\ \E idx \in SwitchIndexValues, ak \in CallArgs, bh \in BehavSets("switch") :
         \/ SwitchFast(idx, ak[1], ak[2], bh)
         \/ \E f \in Faults : OneFailure(bh, f) /\ SwitchEnter(idx, ak[1], ak[2], bh, f)

Dispatch ==
    /\ pc = "idle" /\ ipc = "idle" /\ gpc = "idle"
    /\ UNCHANGED initVars
    /\ \E inst \in InstanceValues, ak \in CallArgs, bh \in BehavSets("dispatch"),
          f \in Faults :
         OneFailure(bh, f) /\ DispatchEnter(inst, ak[1], ak[2], bh, f)

Callback ==
    /\ pc = "ad_call"
    /\ UNCHANGED initVars
    /\ \E g \in Groups : Func(g)

AdCallReturns ==
    /\ pc = "ad_call"
    /\ UNCHANGED initVars
    /\ \E d \in BOOLEAN : AdCallReturn(d)

NextCall ==
    \/ Switch
    \/ Dispatch
    \/ Callback
    \/ AdCallThrow
    \/ AdCallReturns
    \/ BackendCleanup


(* ===================================================================== *)
(*                    properties of switch() / dispatch()                *)
(* ===================================================================== *)

Owed == IF pending THEN 1 ELSE 0

\* C1: a traced switch()/dispatch() call that returns normally has its Call
\* State destroyed exactly once: by the caller when ad_call reported done,
\* otherwise by the backend's cleanup callback (still owed, or already run);
\* never twice, never by nobody.
C1_DestroyedOnceOnReturn ==
    (path = "traced" /\ pc = "returned") =>
        /\ Len(destroyed) + Owed = 1
        /\ (done => destroyed = <<"caller">>)
        /\ (~done => destroyed \in {<<>>, <<"backend">>})

\* C1 (deferred path): the backend ran the cleanup callback after the return
C1_Witness ==
    path = "traced" /\ pc = "returned" /\ ~done /\ destroyed = <<"backend">>

\* C1, liveness half under FairCall: the Call State of a returned call is
\* eventually destroyed
C1_EventuallyDestroyed ==
    (path = "traced" /\ pc = "returned") ~> (Len(destroyed) = 1 /\ ~pending)

\* C2: on every failing exit after the Call State was allocated, the Call
\* State is destroyed exactly once (destroyed already, or owed by the backend).
C2_DestroyedOnceOnFailure ==
    (allocated /\ pc = "raised") => Len(destroyed) + Owed = 1

\* C3: when the operation and its Call State are finished, every reference
\* acquired by a collect has been released exactly once: no handle's count
\* is higher or lower than before the call.
C3_HandlesBalanced ==
    (pc \in {"returned", "raised"} /\ ~pending) => \A h \in Handles : refcnt[h] = 0

\* lanes that are active under the mask the caller supplied
MaskedLanes ==
    IF mask.tp = "none" THEN Lanes
    ELSE IF mask.tp = "llvm.Bool" THEN {l \in Lanes : mask.v[l] = 1}
    ELSE active

\* callees selected by at least one active lane (a null instance selects none)
SelectedCallees ==
    {index.v[l] : l \in MaskedLanes} \ (IF op = "dispatch" THEN {0} ELSE {})

Invocations(c) == Cardinality({i \in 1..Len(calls) : calls[i].callee = c})

AllLanesMasked == mask.tp = "llvm.Bool" /\ \A l \in Lanes : mask.v[l] = 0

MaskAllows == mask.tp = "none" \/ (mask.tp = "bool" /\ mask.v[1] = 1)

\* C6: switch() with a host integer selector i allocates no Call State and
\* makes no backend call; a mask that is no host bool makes the call fail;
\* mask False returns None without invoking a callable; otherwise exactly
\* callables[i] is invoked, once, and its result (or its exception) is the
\* outcome of the call.
C6_FastPath ==
    path = "fast" =>
        /\ ~allocated /\ adCalls = 0 /\ destroyed = <<>> /\ ~pending
        /\ pc \in {"returned", "raised"}
        /\ (mask.tp \notin {"none", "bool"} => pc = "raised" /\ calls = <<>>)
        /\ (mask.tp = "bool" /\ mask.v[1] = 0 =>
              pc = "returned" /\ calls = <<>> /\ result.kind = "none")
        /\ (MaskAllows /\ index.v[1] \in 0..(NTargets - 1) =>
              /\ calls = <<[group |-> -1, callee |-> index.v[1]]>>
              /\ (pc = "raised" <=> behav[index.v[1]].raises)
              /\ (pc = "returned" =>
                    /\ result.kind = "value" /\ result.callee = index.v[1]
                    /\ result.struct = behav[index.v[1]].struct
                    /\ result.args = cargs /\ result.kwargs = ckwargs))

\* C6: switch(1, [f0, f1], x) returned the result of f1
C6_Witness ==
    /\ path = "fast" /\ pc = "returned" /\ index.v[1] = 1
    /\ result.kind = "value" /\ result.callee = 1

\* the structures the invoked callees returned
ReturnedStructs ==
    {behav[calls[i].callee].struct :
        i \in {k \in 1..Len(calls) : ~behav[calls[k].callee].raises}}

\* C14: on the traced path every result after the first is checked against
\* the recorded one: as soon as two invoked callees returned different
\* structures the call has failed, it never returns; and when the call
\* returns after at least one invocation, the structure of the merged result
\* is the structure every invoked callee returned, whatever the order in
\* which the backend invoked the groups.
C14_CompatibleResults ==
    path = "traced" =>
        /\ (Cardinality(ReturnedStructs) > 1 => pc = "raised")
        /\ (pc = "returned" /\ calls # <<>> =>
              /\ ReturnedStructs = {result.struct}
              /\ result.kind = "value")

\* C14: two groups were invoked in descending order and the call returned
C14_Witness ==
    /\ path = "traced" /\ pc = "returned" /\ Len(calls) = 2
    /\ calls[1].group > calls[2].group
    /\ result.struct = behav[calls[1].callee].struct

\* C15: every access to the Call State's host objects made by a re-entry of
\* the callback or by a destruction of the Call State (by the caller or by
\* the backend's deferred cleanup) happens with the host-interpreter lock
\* held.
C15_LockHeld == \A a \in access : a.locked

(* ===================================================================== *)
(*              init.cpp : <array type>.__init__ and helpers             *)
(* ===================================================================== *)

\* the "dynamic extent" sentinel of a shape entry
DRJIT_DYNAMIC == -1

\* a type descriptor: the ArrayMeta fields the constructor compares, the
\* value (element) type, and which capability pointers are set
Desc(backend, type, shape, value, flags, caps) ==
    [backend |-> backend, type |-> type, ndim |-> Len(shape), shape |-> shape,
     value |-> value,
     is_vector |-> "vector" \in flags, is_complex |-> "complex" \in flags,
     is_quaternion |-> "quaternion" \in flags, is_matrix |-> "matrix" \in flags,
     cast |-> "cast" \in caps, init_data |-> "init_data" \in caps,
     init_const |-> "init_const" \in caps, data |-> "data" \in caps,
     init_counter |-> "init_counter" \in caps]

\* the registered array types
TypeTable ==
    "llvm.Float"   :> Desc("LLVM", "Float32", <<DRJIT_DYNAMIC>>, "float", {},
                           {"cast", "init_data", "init_const"})
 @@ "llvm.UInt"    :> Desc("LLVM", "UInt32", <<DRJIT_DYNAMIC>>, "int", {},
                           {"cast", "init_data", "init_const", "init_counter"})
 @@ "llvm.Bool"    :> Desc("LLVM", "Bool", <<DRJIT_DYNAMIC>>, "bool", {},
                           {"cast", "init_data", "init_const"})
 @@ "llvm.Float16" :> Desc("LLVM", "Float16", <<DRJIT_DYNAMIC>>, "float", {},
                           {"init_data", "init_const"})
 @@ "cuda.Float"   :> Desc("CUDA", "Float32", <<DRJIT_DYNAMIC>>, "float", {},
                           {"cast", "init_data", "init_const"})
 @@ "scalar.ArrayXf" :> Desc("None", "Float32", <<DRJIT_DYNAMIC>>, "float",
                           {"vector"}, {"cast", "data"})
 @@ "scalar.ArrayXu" :> Desc("None", "UInt32", <<DRJIT_DYNAMIC>>, "int",
                           {"vector"}, {"cast", "data"})
 @@ "scalar.Array0f" :> Desc("None", "Float32", <<0>>, "float", {}, {"cast"})
 @@ "scalar.Array2f" :> Desc("None", "Float32", <<2>>, "float", {}, {"cast"})
 @@ "scalar.Array3f" :> Desc("None", "Float32", <<3>>, "float", {}, {"cast"})
 @@ "scalar.Array3u" :> Desc("None", "UInt32", <<3>>, "int", {}, {"cast"})
 @@ "scalar.Complex2f" :> Desc("None", "Float32", <<2>>, "float", {"complex"},
                           {"cast"})
 @@ "scalar.Quaternion4f" :> Desc("None", "Float32", <<4>>, "float",
                           {"quaternion"}, {"cast"})
 @@ "scalar.Matrix2f" :> Desc("None", "Float32", <<2, 2>>, "scalar.Array2f",
                           {"matrix"}, {"cast"})
 @@ "llvm.Array2f" :> Desc("LLVM", "Float32", <<2, DRJIT_DYNAMIC>>, "llvm.Float",
                           {}, {"cast"})

ArrayTypes == DOMAIN TypeTable
HostTypes == {"float", "int", "bool"}

is_drjit_type(tp) == tp \in ArrayTypes
supp(tp) == TypeTable[tp]

\* the ArrayMeta part of a supplement (what operator== compares)
Meta(s) ==
    [backend |-> s.backend, type |-> s.type, ndim |-> s.ndim, shape |-> s.shape,
     is_vector |-> s.is_vector, is_complex |-> s.is_complex,
     is_quaternion |-> s.is_quaternion, is_matrix |-> s.is_matrix]

\* supp(tp).value for the walk over nested element types; the walk ends at
\* a host scalar type
ValueOf(tp) == IF is_drjit_type(tp) THEN supp(tp).value ELSE "null"

(* ------------------------------ values --------------------------------- *)

\* a host or array value: kind scalar | object | list | iter | array
Scalar(tp, x) == [kind |-> "scalar", tp |-> tp, val |-> x, items |-> <<>>]
Object == [kind |-> "object", tp |-> "object", val |-> "x", items |-> <<>>]
List(items) == [kind |-> "list", tp |-> "list", val |-> "", items |-> items]
Iter(items) == [kind |-> "iter", tp |-> "generator", val |-> "", items |-> items]
Array(tp, items) == [kind |-> "array", tp |-> tp, val |-> "", items |-> items]
Null == [kind |-> "null", tp |-> "null", val |-> "", items |-> <<>>]

\* 0 of a host scalar type
HostZero(tp) == Scalar(tp, "0")

RECURSIVE ZeroValue(_)
\* nb::inst_zero: fixed extents hold zeros, a dynamic extent is empty
ZeroValue(tp) ==
    IF ~is_drjit_type(tp) THEN HostZero(tp)
    ELSE LET n == supp(tp).shape[1]
         IN Array(tp, IF n = DRJIT_DYNAMIC THEN <<>>
                      ELSE [i \in 1..n |-> ZeroValue(supp(tp).value)])

Uninit == [kind |-> "uninit", tp |-> "null", val |-> "", items |-> <<>>]

\* the host scalar type that holds one element of kind `type`
HostOf(type) ==
    IF type \in {"Float16", "Float32", "Float64"} THEN "float"
    ELSE IF type = "Bool" THEN "bool" ELSE "int"

\* nanobind's scalar casters (with implicit conversion): a float slot takes
\* any host number, an integer slot a host int or bool in its range (an
\* unsigned slot takes no negative number), a bool slot a bool
CasterOk(type, o) ==
    /\ o.kind = "scalar"
    /\ CASE HostOf(type) = "float" -> o.tp \in {"float", "int", "bool"}
         [] HostOf(type) = "int"   ->
                /\ o.tp \in {"int", "bool"}
                /\ ~(type \in {"UInt32", "UInt64"} /\ o.val = "-1")
         [] OTHER                  -> o.tp = "bool"

\* the element-set operation of a type whose element type is vt: can o be
\* stored, and what the slot holds afterwards
SetItemOk(type, vt, o) ==
    IF is_drjit_type(vt) THEN o.kind = "scalar" \/ (o.kind = "array" /\ o.tp = vt)
    ELSE CasterOk(type, o)

SetItemValue(vt, o) ==
    IF ~is_drjit_type(vt) THEN Scalar(vt, o.val)
    ELSE IF o.kind = "array" THEN o
    ELSE [kind |-> "array", tp |-> vt, val |-> o.val, items |-> <<>>]

\* value_type(arg) for a host scalar type: bool() accepts every host
\* object, float()/int() a host number; whether an array argument
\* converts depends on its type's conversion slots (arrOk)
HostConvert(vt, o, arrOk) ==
    IF o.kind = "array"
    THEN [ok |-> arrOk, v |-> Scalar(vt, "conv")]
    ELSE IF o.kind = "scalar" \/ vt = "bool"
    THEN [ok |-> TRUE, v |-> Scalar(vt, o.val)]
    ELSE [ok |-> FALSE, v |-> Null]

(* --------------------------- result records ---------------------------- *)

Op(name, n) == [op |-> name, n |-> n]

\* outcome of a constructor run: ok (return 0) or not (return -1 with a
\* TypeError), the instance, its ready flag, the paths entered in order,
\* the backend primitives called, and the broadcast element if any
Res(ok, self, ready, tried, ops, msg, elem) ==
    [ok |-> ok, self |-> self, ready |-> ready, tried |-> tried, ops |-> ops,
     msg |-> msg, elem |-> elem]

(* -------------------------- array_init_seq ----------------------------- *)

\* element kinds FROM_SEQ_IMPL is instantiated for
BulkKinds == {"Bool", "Float32", "Float64", "Int32", "UInt32", "Int64", "UInt64"}

\* a conversion loop without the default case of the switch
BulkFailsIgnoringKind(type, items) ==
    \E i \in 1..Len(items) : ~CasterOk(type, items[i])
\* the switch over s.type with the conversion loop: TRUE when `fail` is set
BulkFails(type, items) ==
    \/ type \notin BulkKinds
    \/ \E i \in 1..Len(items) : ~CasterOk(type, items[i])

RECURSIVE SetItems(_, _, _, _, _)
\* for (i = 0; i < size; ++i) raise_if(set_item(self, i, o)): stops at the
\* first failing assignment
SetItems(tp, self, items, i, ops) ==
    IF i > Len(items) THEN [ok |-> TRUE, self |-> self, ops |-> ops]
    ELSE IF ~SetItemOk(supp(tp).type, supp(tp).value, items[i])
    THEN [ok |-> FALSE, self |-> self, ops |-> Append(ops, Op("set_item", i - 1))]
    ELSE SetItems(tp,
                  [self EXCEPT !.items[i] = SetItemValue(supp(tp).value, items[i])],
                  items, i + 1, Append(ops, Op("set_item", i - 1)))

SeqRes(ret, self, ready, ops, msg) ==
    [ret |-> ret, self |-> self, ready |-> ready, ops |-> ops, msg |-> msg]

\* raise_if(!is_dynamic && s.shape[0] != size, "Input has the wrong size")
SizeAccepted(s, size) == s.shape[1] = DRJIT_DYNAMIC \/ s.shape[1] = size

\* the part of array_init_seq after sq_length/sq_item were found
InitFromItems(tp, items) ==
    LET s    == supp(tp)
        size == Len(items)
        none == Array(tp, <<>>)
    IN IF ~SizeAccepted(s, size)
       THEN SeqRes("raise", none, FALSE, <<>>, "size")
       ELSE IF size = 1 /\ s.init_const
       THEN IF CasterOk(s.type, items[1])
            THEN SeqRes("true", Array(tp, <<Scalar(s.value, items[1].val)>>), TRUE,
                        <<Op("init_const", 1)>>, "")
            ELSE SeqRes("raise", none, FALSE, <<Op("init_const", 1)>>, "init_const")
       ELSE IF s.ndim = 1 /\ s.init_data
       THEN IF BulkFails(s.type, items)
            THEN SeqRes("raise", none, FALSE, <<>>, "invalid type in input")
            ELSE SeqRes("true",
                        Array(tp, [i \in 1..size |-> Scalar(s.value, items[i].val)]),
                        TRUE, <<Op("init_data", size)>>, "")
       ELSE LET start == IF s.shape[1] = DRJIT_DYNAMIC
                         THEN Array(tp, [i \in 1..size |-> Uninit])
                         ELSE ZeroValue(tp)
                first == IF s.shape[1] = DRJIT_DYNAMIC THEN <<Op("init", size)>>
                         ELSE <<Op("zero", 0)>>
                r     == SetItems(tp, start, items, 1, first)
            IN IF r.ok THEN SeqRes("true", r.self, TRUE, r.ops, "")
               ELSE SeqRes("raise", r.self, TRUE, r.ops, "Item assignment failed")

\* array_init_seq: a sequence is imported, an iterable is first turned into
\* a list, anything else is no sequence
array_init_seq(tp, seq) ==
    IF seq.kind \in {"list", "tuple", "array"} THEN InitFromItems(tp, seq.items)
    ELSE IF seq.kind = "iter" THEN InitFromItems(tp, seq.items)
    ELSE SeqRes("false", Array(tp, <<>>), FALSE, <<>>, "")

(* --------------------------- tp_init_array ----------------------------- *)

\* the cast check without the test for a cast primitive
CastAppliesNoPrimitive(s, s_arg) == [Meta(s_arg) EXCEPT !.type = s.type] = Meta(s)
\* m_temp = s_arg; m_temp.type = s.type; m_temp == m_self && s.cast
CastApplies(s, s_arg) ==
    [Meta(s_arg) EXCEPT !.type = s.type] = Meta(s) /\ s.cast

\* m_temp = s; m_temp.backend = Invalid; m_temp.is_vector = true;
\* m_temp == m_arg && s.init_data && s_arg.data
HostImportApplies(s, s_arg) ==
    /\ [Meta(s) EXCEPT !.backend = "None", !.is_vector = TRUE] = Meta(s_arg)
    /\ s.init_data /\ s_arg.data

RECURSIVE InValueChain(_, _)
\* while (cur_tp) { if (arg_tp == cur_tp) ...; cur_tp = supp(cur_tp).value; }
InValueChain(cur_tp, arg_tp) ==
    IF cur_tp = "null" THEN FALSE
    ELSE IF arg_tp = cur_tp THEN TRUE
    ELSE InValueChain(ValueOf(cur_tp), arg_tp)

\* both are 1-D dynamically sized arrays
BothDynamic1D(s, s_arg) ==
    /\ s.ndim = 1 /\ s_arg.ndim = 1
    /\ s.shape[1] = DRJIT_DYNAMIC /\ s_arg.shape[1] = DRJIT_DYNAMIC

\* try_sequence_import after the checks on an argument of another array type
TrySequenceImport(tp, arg_tp) ==
    IF ~is_drjit_type(arg_tp) THEN TRUE
    ELSE IF BothDynamic1D(supp(tp), supp(arg_tp)) THEN FALSE
    ELSE ~InValueChain(supp(tp).value, arg_tp)

\* the slots a broadcast writes, by structural kind (e: element, z: 0.0)
ComplexFill(e, z) == <<e, z>>
QuaternionFill(e, z) == <<z, z, z, e>>
\* a matrix fill that writes the element everywhere
MatrixEntryAll(i, j, e, z) == e
MatrixEntry(i, j, e, z) == IF i = j THEN e ELSE z
PlainFill(n, e) == [i \in 1..n |-> e]

RECURSIVE MatrixFill(_, _, _, _, _, _)
\* for i, for j: col[j] = (i == j) ? element : zero, entry k = i * size + j
MatrixFill(tp, self, size, k, e, ops) ==
    IF k >= size * size THEN [ok |-> TRUE, self |-> self, ops |-> ops]
    ELSE LET i  == k \div size
             j  == k % size
             cs == supp(supp(tp).value)
             v  == MatrixEntry(i, j, e, HostZero("float"))
         IN IF ~SetItemOk(cs.type, cs.value, v)
            THEN [ok |-> FALSE, self |-> self, ops |-> Append(ops, Op("set_item", k))]
            ELSE MatrixFill(tp,
                   [self EXCEPT !.items[i + 1].items[j + 1] = SetItemValue(cs.value, v)],
                   size, k + 1, e, Append(ops, Op("set_item", k)))

\* raise_if(size == 0, "Input has the wrong size (expected 0 elements, got 1)")
BroadcastSizeRejected(size) == size = 0

RECURSIVE tp_init_array(_, _, _, _)

\* value_type(arg): a host scalar conversion, or the constructor of the
\* element array type
CallType(vt, arg, arrOk) ==
    IF is_drjit_type(vt)
    THEN LET r == tp_init_array(vt, <<arg>>, FALSE, arrOk)
         IN [ok |-> r.ok, v |-> r.self, ops |-> r.ops]
    ELSE LET c == HostConvert(vt, arg, arrOk)
         IN [ok |-> c.ok, v |-> c.v, ops |-> <<>>]

\* "No sequence/iterable type, try broadcasting" to the end of the try block
Broadcast(tp, arg, try_seq, arrOk, tried) ==
    LET s    == supp(tp)
        size == s.shape[1]
        none == Array(tp, <<>>)
        t    == Append(tried, "bcast")
        value_type == IF s.is_matrix THEN supp(s.value).value ELSE s.value
        el   == IF arg.tp = s.value THEN [ok |-> TRUE, v |-> arg, ops |-> <<>>]
                ELSE CallType(value_type, arg, arrOk)
        e    == el.v
        z    == HostZero("float")
    IN IF BroadcastSizeRejected(size)
       THEN Res(FALSE, none, FALSE, t, <<>>, "size", Null)
       ELSE IF ~el.ok
       THEN Res(FALSE, none, FALSE, t, el.ops,
                IF try_seq THEN "broadcast" ELSE "broadcast refused", Null)
       ELSE IF size = DRJIT_DYNAMIC /\ s.init_const
       THEN Res(TRUE, Array(tp, <<e>>), TRUE, t,
                Append(el.ops, Op("init_const", 1)), "", e)
       ELSE LET n     == IF size = DRJIT_DYNAMIC THEN 1 ELSE size
                start == IF size = DRJIT_DYNAMIC THEN Array(tp, <<Uninit>>)
                         ELSE ZeroValue(tp)
                first == Append(el.ops, IF size = DRJIT_DYNAMIC THEN Op("init", 1)
                                        ELSE Op("zero", 0))
                r == IF s.is_complex THEN SetItems(tp, start, ComplexFill(e, z), 1, first)
                     ELSE IF s.is_quaternion
                     THEN SetItems(tp, start, QuaternionFill(e, z), 1, first)
                     ELSE IF s.is_matrix THEN MatrixFill(tp, start, n, 0, e, first)
                     ELSE SetItems(tp, start, PlainFill(n, e), 1, first)
            IN IF r.ok THEN Res(TRUE, r.self, TRUE, t, r.ops, "", e)
               ELSE Res(FALSE, r.self, TRUE, t, r.ops, "Item assignment failed", e)

\* the constructor of all array types: args is the positional tuple, kwds
\* tells whether keyword arguments were passed
tp_init_array(tp, args, kwds, arrOk) ==
    LET s    == supp(tp)
        argc == Len(args)
        none == Array(tp, <<>>)
    IN IF kwds THEN Res(FALSE, none, FALSE, <<>>, <<>>, "kwargs", Null)
       ELSE IF argc = 0
       THEN Res(TRUE, ZeroValue(tp), TRUE, <<"zero">>, <<Op("zero", 0)>>, "", Null)
       ELSE IF argc > 1
       THEN LET r == array_init_seq(tp, [kind |-> "tuple", tp |-> "tuple",
                                          val |-> "", items |-> args])
            IN Res(r.ret = "true", r.self, r.ready, <<"args">>, r.ops,
                   IF r.ret = "true" THEN "" ELSE IF r.ret = "raise" THEN r.msg
                   ELSE "argument list", Null)
       ELSE LET arg    == args[1]
                arg_tp == arg.tp
            IN IF is_drjit_type(arg_tp) /\ arg_tp = tp
               THEN Res(TRUE, arg, TRUE, <<"copy">>, <<Op("copy", 0)>>, "", Null)
               ELSE IF is_drjit_type(arg_tp) /\ CastApplies(s, supp(arg_tp))
               THEN Res(TRUE,
                        Array(tp, [i \in 1..Len(arg.items) |->
                                      SetItemValue(s.value, arg.items[i])]),
                        TRUE, <<"cast">>, <<Op("cast", 0)>>, "", Null)
               ELSE IF is_drjit_type(arg_tp) /\ HostImportApplies(s, supp(arg_tp))
               THEN Res(TRUE,
                        Array(tp, [i \in 1..Len(arg.items) |->
                                      Scalar(s.value, arg.items[i].val)]),
                        TRUE, <<"host">>, <<Op("init_data", Len(arg.items))>>, "", Null)
               ELSE LET try_seq == TrySequenceImport(tp, arg_tp)
                        r == IF try_seq THEN array_init_seq(tp, arg)
                             ELSE SeqRes("false", none, FALSE, <<>>, "")
                    IN IF r.ret = "true"
                       THEN Res(TRUE, r.self, r.ready, <<"seq">>, r.ops, "", Null)
                       ELSE IF r.ret = "raise"
                       THEN Res(FALSE, r.self, r.ready, <<"seq">>, r.ops, r.msg, Null)
                       ELSE Broadcast(tp, arg, try_seq, arrOk,
                                      IF try_seq THEN <<"seq">> ELSE <<>>)

(* ------------------------ full / zeros / ones -------------------------- *)

\* a call of full, arange or linspace, and its outcome: a value or an
\* exception (msg), the set_item results full ignored, and for arange /
\* linspace the lane count, the divisor of the step (-1: no step was
\* computed) and the lanes
GenCall(fn, dtype, value, shape, start, stop, step, num, endpoint) ==
    [fn |-> fn, dtype |-> dtype, value |-> value, shape |-> shape,
     start |-> start, stop |-> stop, step |-> step, num |-> num,
     endpoint |-> endpoint]
NoGenCall == GenCall("none", "none", Null, <<>>, 0, 0, 0, 0, FALSE)

GenRes(ok, v, ignored, msg, count, divisor, lanes) ==
    [ok |-> ok, v |-> v, ignored |-> ignored, msg |-> msg, count |-> count,
     divisor |-> divisor, lanes |-> lanes]
NoGenRes == GenRes(FALSE, Null, 0, "", 0, -1, <<>>)

FullRes(ok, v, ignored, msg) == [ok |-> ok, v |-> v, ignored |-> ignored, msg |-> msg]

\* types with a DRJIT_STRUCT dictionary: the field types in order ("#1" is an
\* entry that is no type)
StructTable ==
    "Rec"       :> <<"llvm.Float", "llvm.Array2f", "float">>
 @@ "Pair"      :> <<"scalar.Array3f", "int">>
 @@ "BadStruct" :> <<"llvm.Float", "#1">>
StructTypes == DOMAIN StructTable

\* v.is_type()
IsType(t) == t \in ArrayTypes \cup HostTypes \cup StructTypes \cup {"str"}

\* a shape check that compares the number of dimensions only
ShapeFailsNdimOnly(s, shape) == s.ndim # Len(shape)
\* bool fail = s.ndim != ndim; fail |= s.shape[i] != DRJIT_DYNAMIC &&
\* s.shape[i] != shape[i]
ShapeFails(s, shape) ==
    IF s.ndim # Len(shape) THEN TRUE
    ELSE \E i \in 1..Len(shape) :
            s.shape[i] # DRJIT_DYNAMIC /\ s.shape[i] # shape[i]

\* if (s.type == Bool && value is a PyLong) value = cast<int>(value) ? True : False
BoolOfInt(s, value) ==
    IF s.type = "Bool" /\ value.kind = "scalar" /\ value.tp = "int"
    THEN Scalar("bool", IF value.val = "0" THEN "0" ELSE "1")
    ELSE value

\* dtype(value) for dtype int, float or bool: bool() takes every object,
\* int() and float() a host number
HostCall(dtype, value) ==
    IF dtype = "bool"
    THEN [ok |-> TRUE,
          v |-> Scalar("bool", IF value.kind = "scalar" /\ value.val = "0"
                               THEN "0" ELSE "1")]
    ELSE IF value.kind = "scalar" THEN [ok |-> TRUE, v |-> Scalar(dtype, value.val)]
    ELSE [ok |-> FALSE, v |-> Null]

\* set_item(result.ptr(), i, o.ptr()): the returned status is dropped
SetItemUnchecked(ok, n) == IF ok THEN n ELSE n + 1

RECURSIVE FillSlots(_, _, _, _, _, _)
\* for (i = 0; i < shape[0]; ++i) set_item(result, i, o)
FillSlots(tp, self, n, i, o, ignored) ==
    IF i > n THEN FullRes(TRUE, self, ignored, "")
    ELSE LET fits == SetItemOk(supp(tp).type, supp(tp).value, o)
         IN FillSlots(tp,
                IF fits THEN [self EXCEPT !.items[i] = SetItemValue(supp(tp).value, o)]
                ELSE self,
                n, i + 1, o, SetItemUnchecked(fits, ignored))

\* the shape full(dtype, value, size) builds: the last dynamic axis gets
\* size, every other dynamic axis 1
SizeShape(dtype, size) ==
    IF is_drjit_type(dtype)
    THEN LET s == supp(dtype)
         IN [i \in 1..s.ndim |->
                IF s.shape[i] # DRJIT_DYNAMIC THEN s.shape[i]
                ELSE IF i = s.ndim THEN size ELSE 1]
    ELSE <<size>>

RECURSIVE full(_, _, _)
RECURSIVE FullFields(_, _, _, _, _, _)

\* for (auto [k, v] : dstruct_dict): entry = full(v, ...); setattr(result, k, entry)
FullFields(fields, value, shape, i, acc, ignored) ==
    IF i > Len(fields)
    THEN FullRes(TRUE, [kind |-> "struct", tp |-> "struct", val |-> "", items |-> acc],
                 ignored, "")
    ELSE IF ~IsType(fields[i])
    THEN FullRes(FALSE, Null, ignored, "DRJIT_STRUCT invalid")
    ELSE LET e == IF is_drjit_type(fields[i]) /\ Len(shape) = 1
                  THEN full(fields[i], value, SizeShape(fields[i], shape[1]))
                  ELSE full(fields[i], value, shape)
         IN IF ~e.ok THEN FullRes(FALSE, Null, ignored + e.ignored, e.msg)
            ELSE FullFields(fields, value, shape, i + 1, Append(acc, e.v),
                            ignored + e.ignored)

\* full(dtype, value, ndim, shape); value = Null is the invalid handle that
\* empty() passes
full(dtype, value, shape) ==
    IF is_drjit_type(dtype)
    THEN LET s == supp(dtype)
         IN IF ShapeFails(s, shape)
            THEN FullRes(FALSE, Null, 0, "incompatible")
            ELSE IF s.init_const /\ value.kind # "null"
            THEN IF CasterOk(s.type, BoolOfInt(s, value))
                 THEN FullRes(TRUE,
                        Array(dtype, [i \in 1..shape[1] |->
                                 Scalar(s.value, BoolOfInt(s, value).val)]), 0, "")
                 ELSE FullRes(FALSE, Null, 0, "init_const")
            ELSE LET start == IF s.shape[1] = DRJIT_DYNAMIC
                              THEN Array(dtype, [i \in 1..shape[1] |-> Uninit])
                              ELSE ZeroValue(dtype)
                 IN IF (value.kind = "null" /\ Len(shape) = 1) \/ shape[1] = 0
                    THEN FullRes(TRUE, start, 0, "")
                    ELSE LET o == full(s.value, value, Tail(shape))
                         IN IF ~o.ok THEN FullRes(FALSE, Null, o.ignored, o.msg)
                            ELSE FillSlots(dtype, start, shape[1], 1, o.v, o.ignored)
    ELSE IF dtype \in HostTypes
    THEN IF value.kind = "null" THEN FullRes(TRUE, HostZero(dtype), 0, "")
         ELSE LET c == HostCall(dtype, value)
              IN FullRes(c.ok, c.v, 0, IF c.ok THEN "" ELSE "conversion")
    ELSE IF dtype \in StructTypes
    THEN FullFields(StructTable[dtype], value, shape, 1, <<>>, 0)
    ELSE FullRes(FALSE, Null, 0, "Unsupported dtype")

\* full(dtype, value, size)
full_size(dtype, value, size) == full(dtype, value, SizeShape(dtype, size))

(* ------------------------------ arange --------------------------------- *)

\* C++ integer division truncates toward zero
TruncDiv(a, b) ==
    IF (a >= 0) = (b > 0) THEN (IF a >= 0 THEN a ELSE -a) \div (IF b > 0 THEN b ELSE -b)
    ELSE -((IF a >= 0 THEN a ELSE -a) \div (IF b > 0 THEN b ELSE -b))

\* Py_ssize_t size = (end - start + step - (step > 0 ? 1 : -1)) / step
ArangeSize(start, end, step) ==
    TruncDiv(end - start + step - (IF step > 0 THEN 1 ELSE -1), step)

\* meta_get_type(meta) with meta.type = UInt32: the registered type with
\* that metadata ("null" when there is none)
CounterType(dtype) ==
    LET m == [Meta(supp(dtype)) EXCEPT !.type = "UInt32"]
        c == {t \in ArrayTypes : Meta(supp(t)) = m}
    IN IF c = {} THEN "null" ELSE CHOOSE t \in c : TRUE

\* the checks arange and linspace share: 1-D dynamic dtype, a counter type
\* with init_counter
GeneratorDtypeError(dtype) ==
    IF supp(dtype).ndim # 1 \/ supp(dtype).shape[1] # DRJIT_DYNAMIC
    THEN "must be a dynamically sized 1D array"
    ELSE ""
CounterError(dtype) ==
    IF CounterType(dtype) = "null" THEN "no counter type"
    ELSE IF ~supp(CounterType(dtype)).init_counter THEN "unsupported dtype"
    ELSE ""

GenError(msg) == GenRes(FALSE, Null, 0, msg, 0, -1, <<>>)

IntScalar(n) == Scalar("int", IF n < 0 THEN "-1" ELSE "1")

\* arange(dtype, start, end, step); for a zero step the division either
\* traps or yields the quotient ub
arange(dtype, start, end, step, ub, trap) ==
    LET s    == supp(dtype)
        size == IF step = 0 THEN ub ELSE ArangeSize(start, end, step)
    IN IF GeneratorDtypeError(dtype) # "" THEN GenError(GeneratorDtypeError(dtype))
       ELSE IF s.type \in {"Bool", "Pointer"} THEN GenError("must be an arithmetic type")
       ELSE IF step = 0 /\ trap THEN GenError("SIGFPE")
       ELSE IF CounterError(dtype) # "" THEN GenError(CounterError(dtype))
       ELSE IF size = 0 THEN GenRes(TRUE, ZeroValue(dtype), 0, "", 0, -1, <<>>)
       ELSE IF size < 0 THEN GenError("size cannot be negative")
       ELSE IF start = 0 /\ step = 1
       THEN GenRes(TRUE, Array(dtype, <<>>), 0, "", size, -1, [i \in 1..size |-> i - 1])
       \* dtype(step), dtype(start): a negative number broadcast into an
       \* unsigned array fails
       ELSE IF ~CasterOk(s.type, IntScalar(step)) \/ ~CasterOk(s.type, IntScalar(start))
       THEN GenError("broadcast")
       ELSE GenRes(TRUE, Array(dtype, <<>>), 0, "", size, -1,
                   [i \in 1..size |-> (i - 1) * step + start])

(* ----------------------------- linspace -------------------------------- *)

\* a double: a ratio of integers, or the NaN / infinity a division by 0.0 gives
Ratio(n, d) == [kind |-> "num", n |-> n, d |-> d]
NaN == [kind |-> "nan", n |-> 0, d |-> 0]
Inf(sign) == [kind |-> "inf", n |-> sign, d |-> 0]

\* (stop - start) / divisor on doubles
FDiv(a, b) ==
    IF b # 0 THEN Ratio(a, b)
    ELSE IF a = 0 THEN NaN
    ELSE Inf(IF a > 0 THEN 1 ELSE -1)

\* fma(i, step, start) on doubles: 0 * inf and anything with NaN are NaN
Fma(i, step, start) ==
    IF step.kind = "nan" THEN NaN
    ELSE IF step.kind = "inf" THEN (IF i = 0 THEN NaN ELSE step)
    ELSE Ratio(i * step.n + start * step.d, step.d)

\* size - ((endpoint && size > 0) ? 1 : 0)
LinspaceDivisor(size, endpoint) == size - (IF endpoint /\ size > 0 THEN 1 ELSE 0)

\* linspace(dtype, start, stop, size, endpoint)
linspace(dtype, start, stop, size, endpoint) ==
    LET s == supp(dtype)
    IN IF GeneratorDtypeError(dtype) # "" THEN GenError(GeneratorDtypeError(dtype))
       ELSE IF s.type \notin {"Float16", "Float32", "Float64"}
       THEN GenError("must be a floating point type")
       ELSE IF CounterError(dtype) # "" THEN GenError(CounterError(dtype))
       ELSE IF size = 0 THEN GenRes(TRUE, ZeroValue(dtype), 0, "", 0, -1, <<>>)
       ELSE LET d    == LinspaceDivisor(size, endpoint)
                step == FDiv(stop - start, d)
            IN GenRes(TRUE, Array(dtype, <<>>), 0, "", size, d,
                      [i \in 1..size |-> Fma(i - 1, step, start)])

(* ------------------------ constructor inputs --------------------------- *)

Seqs(S, lo, hi) == UNION {[1..n -> S] : n \in lo..hi}

\* host objects passed as elements: a float, an int, a bool, and an object
\* that converts to no number
HostElems == {Scalar("float", "1"), Scalar("int", "2"), Scalar("bool", "1"), Object}

RECURSIVE SampleArray(_, _)
\* an instance of array type tp whose dynamic extent (if any) is n
SampleArray(tp, n) ==
    LET s == supp(tp)
        k == IF s.shape[1] = DRJIT_DYNAMIC THEN n ELSE s.shape[1]
        e == IF is_drjit_type(s.value) THEN SampleArray(s.value, 1)
             ELSE Scalar(s.value, "1")
    IN Array(tp, [i \in 1..k |-> e])

SampleArrays == {SampleArray(tp, n) : tp \in ArrayTypes, n \in 0..MaxLen}

SingleArgs ==
    HostElems
    \cup {List(items) : items \in Seqs(HostElems, 0, MaxLen)}
    \cup {Iter(items) : items \in Seqs({Scalar("float", "1")}, 0, MaxLen)}
    \cup SampleArrays

ArgTuples ==
    {<<>>} \cup {<<a>> : a \in SingleArgs} \cup Seqs(HostElems, 2, MaxLen)

NoRes == Res(FALSE, Null, FALSE, <<>>, <<>>, "", Null)

InitInit ==
    /\ ipc = "idle" /\ itp = "none" /\ iargs = <<>> /\ ikwds = FALSE
    /\ iarrOk = FALSE /\ ires = NoRes
    /\ gpc = "idle" /\ gcall = NoGenCall /\ gres = NoGenRes

\* whether the host conversion of the argument can matter
ArrOkChoices(args) ==
    IF Len(args) = 1 /\ args[1].kind = "array" THEN BOOLEAN ELSE {FALSE}

\* one call of T(*args, **kwds)
Construct ==
    /\ ipc = "idle" /\ pc = "idle" /\ gpc = "idle"
    /\ UNCHANGED <<gpc, gcall, gres>>
    /\ \E tp \in ArrayTypes, args \in ArgTuples, kwds \in BOOLEAN :
         \E arrOk \in ArrOkChoices(args) :
           /\ itp' = tp /\ iargs' = args /\ ikwds' = kwds /\ iarrOk' = arrOk
           /\ ires' = tp_init_array(tp, args, kwds, arrOk)
    /\ ipc' = "done"
    /\ UNCHANGED callVars

(* ------------------------- generator inputs ---------------------------- *)

\* the fill values: 0 (zeros), 1 (ones), 2.0, -1, an object that is no
\* number, and the invalid handle of empty()
FullValues ==
    {Scalar("int", "0"), Scalar("int", "1"), Scalar("float", "2"),
     Scalar("int", "-1"), Object, Null}

FullTypes == ArrayTypes \cup HostTypes \cup StructTypes \cup {"str"}

Shapes == Seqs(0..MaxLen, 0, MaxDims)

\* full(dtype, value, shape) / zeros / ones / empty with a shape
Full ==
    /\ gpc = "idle" /\ ipc = "idle" /\ pc = "idle"
    /\ \E dtype \in FullTypes, value \in FullValues, shape \in Shapes :
         /\ gcall' = GenCall("full", dtype, value, shape, 0, 0, 0, 0, FALSE)
         /\ gres' = LET r == full(dtype, value, shape)
                    IN GenRes(r.ok, r.v, r.ignored, r.msg, 0, -1, <<>>)
    /\ gpc' = "done"
    /\ UNCHANGED <<callVars, ipc, itp, iargs, ikwds, iarrOk, ires>>

\* full(dtype, value, size) / zeros / ones / empty with a size
FullSize ==
    /\ gpc = "idle" /\ ipc = "idle" /\ pc = "idle"
    /\ \E dtype \in FullTypes, value \in FullValues, size \in 0..MaxLen :
         /\ gcall' = GenCall("full_size", dtype, value, <<size>>, 0, 0, 0, 0, FALSE)
         /\ gres' = LET r == full_size(dtype, value, size)
                    IN GenRes(r.ok, r.v, r.ignored, r.msg, 0, -1, <<>>)
    /\ gpc' = "done"
    /\ UNCHANGED <<callVars, ipc, itp, iargs, ikwds, iarrOk, ires>>

\* what the division by a zero step may yield
UbQuotients == {-1, 0, 1}

Arange ==
    /\ gpc = "idle" /\ ipc = "idle" /\ pc = "idle"
    /\ \E dtype \in ArrayTypes, start \in (-MaxLen)..MaxLen, stop \in (-MaxLen)..MaxLen,
          step \in (-MaxStep)..MaxStep :
         \E ub \in IF step = 0 THEN UbQuotients ELSE {0},
            trap \in IF step = 0 THEN BOOLEAN ELSE {FALSE} :
           /\ gcall' = GenCall("arange", dtype, Null, <<>>, start, stop, step, 0, FALSE)
           /\ gres' = arange(dtype, start, stop, step, ub, trap)
    /\ gpc' = "done"
    /\ UNCHANGED <<callVars, ipc, itp, iargs, ikwds, iarrOk, ires>>

Linspace ==
    /\ gpc = "idle" /\ ipc = "idle" /\ pc = "idle"
    /\ \E dtype \in ArrayTypes, start \in 0..1, stop \in 0..MaxLen, num \in 0..MaxLen,
          endpoint \in BOOLEAN :
         /\ gcall' = GenCall("linspace", dtype, Null, <<>>, start, stop, 0, num, endpoint)
         /\ gres' = linspace(dtype, start, stop, num, endpoint)
    /\ gpc' = "done"
    /\ UNCHANGED <<callVars, ipc, itp, iargs, ikwds, iarrOk, ires>>

NextInit ==
    \/ Construct
    \/ Full
    \/ FullSize
    \/ Arange
    \/ Linspace

vars == <<callVars, initVars>>

Init == InitCall /\ InitInit

SpecInit == Init /\ [][NextInit]_vars

SpecCall == Init /\ [][NextCall]_vars

\* the backend is bound to finalize every call it recorded
FairCall == SpecCall /\ WF_vars(BackendCleanup) /\ WF_vars(AdCallReturns)

(* ===================================================================== *)
(*                      properties of the constructor                    *)
(* ===================================================================== *)

\* the constructor ran with one positional argument that is an array of
\* another type
OtherArrayArg ==
    /\ ipc = "done" /\ ~ikwds /\ Len(iargs) = 1
    /\ iargs[1].kind = "array" /\ iargs[1].tp # itp

\* the two descriptors agree on everything except the element kind
AgreeExceptKind(s, a) ==
    /\ s.backend = a.backend /\ s.ndim = a.ndim /\ s.shape = a.shape
    /\ s.is_vector = a.is_vector /\ s.is_complex = a.is_complex
    /\ s.is_quaternion = a.is_quaternion /\ s.is_matrix = a.is_matrix

\* the source is a host vector with a buffer whose metadata is the target's
\* with the backend tag stripped
HostBufferMatches(s, a) ==
    /\ a.data /\ a.backend = "None" /\ a.is_vector
    /\ a.type = s.type /\ a.ndim = s.ndim /\ a.shape = s.shape
    /\ a.is_complex = s.is_complex /\ a.is_quaternion = s.is_quaternion
    /\ a.is_matrix = s.is_matrix

\* the element types nested in tp: its value type, that one's value type, ...
NestedValueTypes(tp) ==
    {ValueOf(tp), ValueOf(ValueOf(tp)), ValueOf(ValueOf(ValueOf(tp)))} \ {"null"}

\* sequence import is suppressed for this pair of types
ImportSuppressed(tp, atp) ==
    \/ /\ supp(tp).shape = <<DRJIT_DYNAMIC>> /\ supp(atp).shape = <<DRJIT_DYNAMIC>>
    \/ atp \in NestedValueTypes(tp)

PathOrder == <<"cast", "host", "seq", "bcast">>
PathPos(p) == CHOOSE i \in 1..Len(PathOrder) : PathOrder[i] = p
Tried(p) == \E i \in 1..Len(ires.tried) : ires.tried[i] = p

\* C7: for one argument of another array type the paths are entered in the
\* order cast, host import, sequence import, broadcast; cast is taken
\* exactly when the descriptors agree except for the element kind and a cast
\* primitive exists, and then it alone decides; host import only when cast
\* does not apply, the target has bulk import and the source has a matching
\* host buffer, and then it alone decides; sequence import only when
\* neither applies and it is not suppressed; broadcast only when no earlier
\* path produced a value.
C7_PathOrder ==
    OtherArrayArg =>
        LET s  == supp(itp)
            a  == supp(iargs[1].tp)
            castc == AgreeExceptKind(s, a) /\ s.cast
            hostc == s.init_data /\ HostBufferMatches(s, a)
        IN /\ Len(ires.tried) >= 1
           /\ \A i \in 1..Len(ires.tried) :
                 /\ \E k \in 1..Len(PathOrder) : PathOrder[k] = ires.tried[i]
                 /\ \A j \in 1..Len(ires.tried) :
                       i < j => PathPos(ires.tried[i]) < PathPos(ires.tried[j])
           /\ (Tried("cast") <=> castc)
           /\ (Tried("cast") =>
                 ires.tried = <<"cast">> /\ ires.ok /\ ires.ops = <<Op("cast", 0)>>)
           /\ (Tried("host") =>
                 /\ ~castc /\ hostc /\ ires.tried = <<"host">> /\ ires.ok
                 /\ ires.ops = <<Op("init_data", Len(iargs[1].items))>>)
           /\ (Tried("seq") =>
                 ~castc /\ ~hostc /\ ~ImportSuppressed(itp, iargs[1].tp))
           /\ (Tried("bcast") =>
                 /\ ~castc /\ ~hostc
                 /\ ires.tried = <<"bcast">> /\ ImportSuppressed(itp, iargs[1].tp))

\* C7: a host import was taken (cast did not apply to the pair)
C7_Witness ==
    OtherArrayArg /\ ires.tried = <<"host">> /\ ires.ok /\ Len(iargs[1].items) > 0

\* C8: a 1-D dynamic JIT array built from another 1-D dynamic JIT array,
\* when neither cast nor host import applies, never imports element by
\* element and always ends in a construction failure.
C8_JitToJitFails ==
    (/\ OtherArrayArg
     /\ supp(itp).backend # "None" /\ supp(iargs[1].tp).backend # "None"
     /\ supp(itp).shape = <<DRJIT_DYNAMIC>>
     /\ supp(iargs[1].tp).shape = <<DRJIT_DYNAMIC>>
     /\ ~(AgreeExceptKind(supp(itp), supp(iargs[1].tp)) /\ supp(itp).cast)
     /\ ~(supp(itp).init_data /\ HostBufferMatches(supp(itp), supp(iargs[1].tp))))
    => /\ ~Tried("seq")
       /\ \A i \in 1..Len(ires.ops) : ires.ops[i].op # "set_item"
       /\ ~ires.ok

\* the host sequence a sequence import ran on (the argument tuple, or the
\* one sequence / iterable argument)
SeqImportRan ==
    /\ ipc = "done" /\ ~ikwds
    /\ \/ Len(iargs) > 1
       \/ /\ Len(iargs) = 1 /\ iargs[1].kind \in {"list", "iter", "array"}
          /\ Tried("seq")
ImportedItems == IF Len(iargs) > 1 THEN iargs ELSE iargs[1].items

\* C9: a sequence import succeeds only if the length equals the fixed first
\* extent or the first extent is dynamic; a length different from a fixed
\* extent fails with a size mismatch before any element is imported; an
\* empty sequence imported into a 1-D dynamic target succeeds with length 0.
C9_SequenceLength ==
    SeqImportRan =>
        LET s == supp(itp)
            n == Len(ImportedItems)
        IN /\ (ires.ok => s.shape[1] = DRJIT_DYNAMIC \/ s.shape[1] = n)
           /\ (s.shape[1] # DRJIT_DYNAMIC /\ s.shape[1] # n =>
                 ~ires.ok /\ ires.msg = "size" /\ ires.ops = <<>>)
           /\ (n = 0 /\ s.shape = <<DRJIT_DYNAMIC>> =>
                 ires.ok /\ ires.ready /\ Len(ires.self.items) = 0)

\* C10: after a successful broadcast of element e into a fixed extent n, a
\* plain array holds e in slots 0..n-1, a complex number e and 0, a
\* quaternion 0, 0, 0 and e, an n-by-n matrix e on the diagonal and 0 off
\* it; a target of fixed extent 0 is rejected as a size mismatch and nothing
\* is written.
C10_BroadcastSlots ==
    (ipc = "done" /\ Tried("bcast")) =>
        LET s == supp(itp)
            n == s.shape[1]
            e == ires.elem
            z == Scalar("float", "0")
            x == ires.self.items
        IN /\ (n = 0 => ~ires.ok /\ ires.msg = "size" /\ ires.ops = <<>>
                        /\ ~ires.ready)
           /\ (ires.ok /\ n > 0 =>
                 /\ Len(x) = n
                 /\ IF s.is_complex THEN x[1] = e /\ x[2] = z
                    ELSE IF s.is_quaternion
                    THEN x[1] = z /\ x[2] = z /\ x[3] = z /\ x[4] = e
                    ELSE IF s.is_matrix
                    THEN \A i, j \in 1..n :
                            /\ Len(x[i].items) = n
                            /\ x[i].items[j] = IF i = j THEN e ELSE z
                    ELSE \A i \in 1..n : x[i] = e)

\* C10: a scalar was broadcast onto the diagonal of a matrix
C10_Witness ==
    /\ ipc = "done" /\ Tried("bcast") /\ ires.ok /\ supp(itp).is_matrix
    /\ ires.elem = Scalar("float", "2")

\* a sequence import reached the bulk-import branch: the length was
\* accepted, the target is 1-D with bulk import, and the length-1
\* constant-broadcast shortcut was not taken
BulkImportRan ==
    /\ SeqImportRan
    /\ supp(itp).ndim = 1 /\ supp(itp).init_data
    /\ (supp(itp).shape[1] = DRJIT_DYNAMIC \/ supp(itp).shape[1] = Len(ImportedItems))
    /\ ~(Len(ImportedItems) = 1 /\ supp(itp).init_const)

\* the element is a host number the native scalar kind takes
Converts(type, o) ==
    /\ o.kind = "scalar"
    /\ \/ type \in {"Float32", "Float64"} /\ o.tp \in {"float", "int", "bool"}
       \/ type \in {"Int32", "UInt32", "Int64", "UInt64"} /\ o.tp \in {"int", "bool"}
       \/ type = "Bool" /\ o.tp = "bool"

\* C16: a bulk import is all-or-nothing with one backend call: when every
\* element converts to the native scalar kind the bulk-import primitive is
\* called exactly once with the full length and nothing else is called;
\* when an element does not convert, or the kind is unsupported, no
\* primitive is called, the target is not marked ready and the
\* construction fails.
C16_BulkAllOrNothing ==
    BulkImportRan =>
        LET n == Len(ImportedItems)
        IN IF /\ supp(itp).type \in {"Bool", "Float32", "Float64", "Int32",
                                     "UInt32", "Int64", "UInt64"}
              /\ \A i \in 1..n : Converts(supp(itp).type, ImportedItems[i])
           THEN /\ ires.ok /\ ires.ready
                /\ ires.ops = <<Op("init_data", n)>>
                /\ Len(ires.self.items) = n
           ELSE /\ ~ires.ok /\ ~ires.ready /\ ires.ops = <<>>

\* C16: a list of three numbers went through one bulk import
C16_Witness ==
    /\ BulkImportRan /\ Len(ImportedItems) = 3 /\ ires.ok
    /\ ires.ops = <<Op("init_data", 3)>>

(* ===================================================================== *)
(*               properties of full / arange / linspace                  *)
(* ===================================================================== *)

FullRan == gpc = "done" /\ gcall.fn \in {"full", "full_size"}

\* a sequence import filled the target element by element
ElementwiseImportRan ==
    /\ SeqImportRan
    /\ (supp(itp).shape[1] = DRJIT_DYNAMIC \/ supp(itp).shape[1] = Len(ImportedItems))
    /\ ~(Len(ImportedItems) = 1 /\ supp(itp).init_const)
    /\ ~(supp(itp).ndim = 1 /\ supp(itp).init_data)

\* C11: no construction failure is swallowed: with keyword arguments, with a
\* length that differs from a fixed extent, with a failed broadcast
\* conversion, or when an element-set operation reports failure (in the
\* constructor, in the sequence importer, or in the fill of full / zeros /
\* ones), the operation ends in an error and returns no value.
C11_NoSilentFailure ==
    /\ (ipc = "done" =>
          /\ (ikwds => ~ires.ok)
          /\ (SeqImportRan /\ supp(itp).shape[1] # DRJIT_DYNAMIC
              /\ supp(itp).shape[1] # Len(ImportedItems) => ~ires.ok)
          /\ (Tried("bcast") /\ ires.elem = Null => ~ires.ok)
          /\ (ElementwiseImportRan
              /\ (\E i \in 1..Len(ImportedItems) :
                     ~SetItemOk(supp(itp).type, supp(itp).value, ImportedItems[i]))
              => ~ires.ok)
          /\ (ires.msg # "" => ~ires.ok))
    /\ (FullRan =>
          /\ (gres.ignored > 0 => ~gres.ok)
          /\ (gres.msg # "" => ~gres.ok))

\* the shape agrees with the declared shape of array type tp
ShapeMatches(tp, shape) ==
    /\ Len(shape) = supp(tp).ndim
    /\ \A i \in 1..Len(shape) :
          i <= supp(tp).ndim =>
             supp(tp).shape[i] = DRJIT_DYNAMIC \/ supp(tp).shape[i] = shape[i]

\* the shape a size n is resolved to for array type tp
ResolvedShape(tp, n) ==
    [i \in 1..supp(tp).ndim |->
        IF supp(tp).shape[i] # DRJIT_DYNAMIC THEN supp(tp).shape[i]
        ELSE IF i = supp(tp).ndim THEN n ELSE 1]

\* the shape a field of type f is filled with when the record is filled
\* with `shape`
FieldShape(f, shape) ==
    IF is_drjit_type(f) /\ Len(shape) = 1 THEN ResolvedShape(f, shape[1]) ELSE shape

\* what a leaf of host type t reads after v was stored in it
LaneOf(t, v) ==
    Scalar(t, IF t = "bool" THEN (IF v.val = "0" THEN "0" ELSE "1") ELSE v.val)

RECURSIVE Filled(_, _, _, _)
\* x is a value of type tp with the extents of shape whose leaves all read v
Filled(x, tp, shape, v) ==
    IF is_drjit_type(tp)
    THEN /\ x.kind = "array" /\ x.tp = tp /\ shape # <<>>
         /\ Len(x.items) = shape[1]
         /\ \A i \in 1..Len(x.items) : Filled(x.items[i], ValueOf(tp), Tail(shape), v)
    ELSE IF tp \in HostTypes THEN x = LaneOf(tp, v)
    ELSE /\ tp \in StructTypes /\ x.kind = "struct"
         /\ Len(x.items) = Len(StructTable[tp])
         /\ \A k \in 1..Len(x.items) :
               Filled(x.items[k], StructTable[tp][k],
                      FieldShape(StructTable[tp][k], shape), v)

RequestedShape ==
    IF gcall.fn = "full_size" /\ is_drjit_type(gcall.dtype)
    THEN ResolvedShape(gcall.dtype, gcall.shape[1])
    ELSE gcall.shape

\* C12 as stated: full(T, v, shape) on an array type succeeds exactly when
\* the shape has T's number of dimensions and equals T's extent on every
\* fixed axis; on success (array, nested array and record types) the result
\* has the requested extents and every leaf lane reads v.
C12_FullShape ==
    (FullRan /\ gcall.value.kind # "null"
     /\ gcall.dtype \in ArrayTypes \cup {"Rec", "Pair"}) =>
        /\ (is_drjit_type(gcall.dtype) =>
              (gres.ok <=> ShapeMatches(gcall.dtype, RequestedShape)))
        /\ (gres.ok => Filled(gres.v, gcall.dtype, RequestedShape, gcall.value))

RECURSIVE LeafTypes(_)
\* the host types of the leaves of tp
LeafTypes(tp) ==
    IF is_drjit_type(tp) THEN LeafTypes(ValueOf(tp))
    ELSE IF tp \in HostTypes THEN {tp}
    ELSE UNION {LeafTypes(StructTable[tp][k]) : k \in 1..Len(StructTable[tp])}

\* v is 0, 1, or a value of the host type of every leaf of tp
ValueFits(tp, v) ==
    /\ v.kind = "scalar"
    /\ \/ v \in {Scalar("int", "0"), Scalar("int", "1")}
       \/ v.val # "-1" /\ LeafTypes(tp) = {v.tp}

RECURSIVE ShapeAccepted(_, _)
\* every array type reached with `shape` agrees with it; an array field of
\* a record filled with a 1-D shape takes the resolved shape of its own
ShapeAccepted(tp, shape) ==
    IF is_drjit_type(tp) THEN ShapeMatches(tp, shape)
    ELSE IF tp \in HostTypes THEN TRUE
    ELSE \A k \in 1..Len(StructTable[tp]) :
            ShapeAccepted(StructTable[tp][k], FieldShape(StructTable[tp][k], shape))

\* C12 amended: for v equal to 0, 1 or a value of T's leaf element kind,
\* full(T, v, shape) succeeds exactly when every array type is reached with
\* a shape of its number of dimensions that equals its extent on every
\* fixed axis (a record hands a 1-D shape (n) to each array field as that
\* field's own shape with n on its last dynamic axis), and then the result
\* has these extents and every leaf lane reads v.
C12_FullShapeOfFittingValue ==
    (FullRan /\ gcall.dtype \in ArrayTypes \cup {"Rec", "Pair"}
     /\ ValueFits(gcall.dtype, gcall.value)) =>
        /\ (gres.ok <=> ShapeAccepted(gcall.dtype, RequestedShape))
        /\ (gres.ok => /\ Filled(gres.v, gcall.dtype, RequestedShape, gcall.value)
                       /\ gres.ignored = 0)

\* C12: a record with a nested array field was filled with ones, shape (2)
C12_Witness ==
    /\ FullRan /\ gcall.fn = "full" /\ gcall.dtype = "Rec" /\ gcall.shape = <<2>>
    /\ gcall.value = Scalar("int", "1") /\ gres.ok
    /\ Len(gres.v.items[2].items[1].items) = 2

\* ceil(a / b) for b # 0
Ceil(a, b) == IF b > 0 THEN -((-a) \div b) ELSE -(a \div (-b))

\* arange accepted the dtype and reached the size computation
ArangeRan ==
    /\ gpc = "done" /\ gcall.fn = "arange" /\ gcall.step # 0
    /\ gres.msg \notin {"must be a dynamically sized 1D array",
                        "must be an arithmetic type", "no counter type",
                        "unsupported dtype"}

\* C13: for integer start, stop and nonzero step the lane count of arange is
\* ceil((stop - start) / step); a count of 0 returns an empty value, a
\* negative count raises.
C13_ArangeCount ==
    ArangeRan =>
        LET c == Ceil(gcall.stop - gcall.start, gcall.step)
        IN /\ (c = 0 => gres.ok /\ gres.count = 0 /\ gres.lanes = <<>>)
           /\ (c < 0 => ~gres.ok)
           /\ (c > 0 /\ gres.ok => gres.count = c /\ Len(gres.lanes) = c)

\* the double x is the integer k
IsNumber(x, k) == x.kind = "num" /\ x.n = k * x.d

\* C17: linspace never divides by zero: for count >= 1 and both values of
\* endpoint the divisor of the step is nonzero, lane 0 is start and, with
\* endpoint set, lane count-1 is stop; count 0 returns an empty value and
\* computes no step.
C17_LinspaceDivisor ==
    (gpc = "done" /\ gcall.fn = "linspace" /\ gres.ok) =>
        /\ (gcall.num >= 1 =>
              /\ gres.divisor # 0
              /\ Len(gres.lanes) = gcall.num
              /\ IsNumber(gres.lanes[1], gcall.start)
              /\ (gcall.endpoint => IsNumber(gres.lanes[gcall.num], gcall.stop)))
        /\ (gcall.num = 0 =>
              gres.count = 0 /\ gres.lanes = <<>> /\ gres.divisor = -1)

====
